---- MODULE Spec2Model ----
(***************************************************************************)
(* Model of readmixcastep.py: the two readers of CASTEP reports.           *)
(*   readcas  : results log (.castep), segmented into geometry iterations  *)
(*   readcell : input deck (.cell)                                         *)
(*                                                                         *)
(* A report is a sequence of lines.  A line is a record                    *)
(*   [marks |-> the marker substrings the line contains,                   *)
(*    toks  |-> line.split(), the whitespace separated tokens]             *)
(* Numeric tokens are integers: positions in units of 1e-7, weights in     *)
(* tenths, every other quantity an opaque integer label.  Line indices are *)
(* 0-based as in the source.                                               *)
(*                                                                         *)
(* A query returns [err |-> e, val |-> v]: e = "none" and the value, or    *)
(* the name of the failure and val = <<>>.                                 *)
(***************************************************************************)
EXTENDS Integers, Sequences, FiniteSets, TLC

VARIABLES caslines,     \* readcas.caslines
          Nions,        \* readcas.Nions
          task,         \* readcas.task
          complete,     \* readcas.complete
          Niterations,  \* readcas.Niterations
          elems,        \* readcas.elems
          celllines,    \* readcell.celllines
          casatoms,     \* readcell.casatoms: element and position per atom
          op,           \* the last query made ("init" before any)
          arg,          \* its iteration argument (None or <<i>>)
          result        \* what it returned or raised

vars == <<caslines, Nions, task, complete, Niterations, elems, celllines,
          casatoms, op, arg, result>>

-----------------------------------------------------------------------------
(* Bounds of the model *)

\* body blocks of a generated results log
MaxBlocks == 3
\* single point logs carry at most this many body blocks
MaxSingleBlocks == 1
\* a mixture block has at most MaxRows rows
MaxRows == 2
\* a structure with a mixture block has at most MaxAtoms atoms
MaxAtoms == 2
\* the k-point counts per axis run over 1 .. MaxGrid
MaxGrid == 4
\* iteration arguments reach this far beyond -Niterations .. Niterations
Beyond == 1
\* a position component has a magnitude of at most MaxMag * 1e-7
MaxMag == 6

-----------------------------------------------------------------------------
(* Values *)

None == <<>>
Some(i) == <<i>>
IsNone(it) == it = <<>>
The(it) == it[1]

Ok(v) == [err |-> "none", val |-> v]
Raise(e) == [err |-> e, val |-> <<>>]

\* The Python exception class of each failure.
ExcType(e) ==
  CASE e = "IterationOutOfRange" -> "IndexError"
    [] e = "NoSCF"               -> "IndexError"
    [] e = "ListIndex"           -> "IndexError"
    [] e = "NotFound"            -> "UnboundLocalError"
    [] e = "NotApplicable"       -> "NotImplementedError"
    [] e = "UnmatchedSite"       -> "KeyError"
    [] e = "BadValue"            -> "ValueError"
    [] OTHER                     -> "none"

Abs(x) == IF x < 0 THEN -x ELSE x

recognised_tasks == {"single", "geometry"}

\* line i of a report, 0-based
LineAt(lines, i) == lines[i + 1]
Has(line, marker) == marker \in line.marks
NTok(line) == Len(line.toks)
Tok(line, j) == line.toks[j + 1]

\* s[k] with Python's negative indexing
PyIdxOK(s, k) == -Len(s) <= k /\ k < Len(s)
PyIdx(s, k) == s[(IF k < 0 THEN k + Len(s) ELSE k) + 1]

Min(a, b) == IF a < b THEN a ELSE b

-----------------------------------------------------------------------------
(* strindices: the line locator *)

NotFound == -1

\* indices in [nmin, nmax) of the lines containing one of the markers
Matches(lines, markers, nmin, nmax) ==
  {i \in nmin .. (Min(nmax, Len(lines)) - 1) :
     LineAt(lines, i).marks \cap markers # {}}

\* the earliest matching line, or NotFound (the source's UnboundLocalError)
strindex(lines, markers, nmin, nmax) ==
  LET M == Matches(lines, markers, nmin, nmax)
  IN  IF M = {} THEN NotFound
      ELSE CHOOSE i \in M : \A j \in M : i <= j

RECURSIVE Ascending(_)
Ascending(S) ==
  IF S = {} THEN <<>>
  ELSE LET m == CHOOSE i \in S : \A j \in S : i <= j
       IN  <<m>> \o Ascending(S \ {m})

\* every matching line, in ascending order
strindices(lines, markers, nmin, nmax) ==
  Ascending(Matches(lines, markers, nmin, nmax))

-----------------------------------------------------------------------------
(* readcas: construction *)

Nlines == Len(caslines)

\* get_Nions: token 7 of the 'Total number of ions in cell' line
get_Nions(lines) ==
  LET l == strindex(lines, {"Total number of ions in cell"}, 0, Len(lines))
  IN  IF l = NotFound THEN Raise("NotFound")
      ELSE IF NTok(LineAt(lines, l)) < 8 THEN Raise("ListIndex")
      ELSE Ok(Tok(LineAt(lines, l), 7))

\* get_task: token 4 of the 'type of calculation' line
get_task(lines) ==
  LET l == strindex(lines, {"type of calculation                            :"},
                    0, Len(lines))
  IN  IF l = NotFound THEN Raise("NotFound")
      ELSE IF NTok(LineAt(lines, l)) < 5 THEN Raise("ListIndex")
      ELSE Ok(Tok(LineAt(lines, l), 4))

\* check_complete: the 'Total time' line is present
check_complete(lines) ==
  strindex(lines, {"Total time          ="}, 0, Len(lines)) # NotFound

\* get_Niterations counting the finish markers instead
get_Niterations_finished(lines, tsk, cmpl) ==
  IF tsk = "single"
  THEN (IF cmpl THEN 1 ELSE 0)
  ELSE Len(strindices(lines, {"finished iteration"}, 0, Len(lines)))

\* get_Niterations: 1 or 0 for a single point run, the number of
\* 'with enthalpy=' lines for a geometry run
get_Niterations(lines, tsk, cmpl) ==
  IF tsk = "single"
  THEN (IF cmpl THEN 1 ELSE 0)
  ELSE Len(strindices(lines, {"with enthalpy="}, 0, Len(lines)))

\* get_elements: token 1 of the n lines that start 3 lines after 'Element '
get_elements(lines, n) ==
  LET l == strindex(lines, {"Element "}, 0, Len(lines))
      rows == (l + 3) .. (Min(l + 3 + n, Len(lines)) - 1)
  IN  IF l = NotFound THEN Raise("NotFound")
      ELSE IF \E i \in rows : NTok(LineAt(lines, i)) < 2 THEN Raise("ListIndex")
      ELSE Ok([k \in 1 .. Cardinality(rows) |-> Tok(LineAt(lines, l + 2 + k), 1)])

\* __init__ succeeds: every mandatory anchor is there and the task is known
Constructs(lines) ==
  /\ get_Nions(lines).err = "none"
  /\ get_task(lines).err = "none"
  /\ get_task(lines).val \in recognised_tasks
  /\ get_elements(lines, get_Nions(lines).val).err = "none"

\* the reader's fields after __init__(lines)
Constructed(lines) ==
  /\ caslines = lines
  /\ Nions = get_Nions(lines).val
  /\ task = get_task(lines).val
  /\ complete = check_complete(lines)
  /\ Niterations = get_Niterations(lines, task, complete)
  /\ elems = get_elements(lines, Nions).val

-----------------------------------------------------------------------------
(* readcas: the iteration segmenter *)

\* the range check without its second test
OutOfRange_noeq(i) == Abs(i) > Niterations

\* the range check of geomrange
OutOfRange(i) == Abs(i) > Niterations \/ i = Niterations

\* the first-iteration test without its negative form
IsFirst_zero(i) == i = 0

\* the indices that select the first iteration's window
IsFirst(i) == i = 0 \/ i = -Niterations

\* a window that always opens at the first marker
MarkerWindow_first(indices, i) == <<PyIdx(indices, 0), PyIdx(indices, i)>>

\* the window between two consecutive finish markers
MarkerWindow(indices, i) == <<PyIdx(indices, i - 1), PyIdx(indices, i)>>

\* geomrange(iteration, nmin, nmax): the window [lmin, lmax) of an iteration
geomrange(iteration, nmin, nmax) ==
  IF IsNone(iteration) THEN Ok(<<nmin, nmax>>)
  ELSE
    LET i == The(iteration)
        first == strindex(caslines, {"finished iteration"}, nmin, nmax)
        indices == strindices(caslines, {"finished iteration"}, nmin, nmax)
    IN  IF OutOfRange(i) THEN Raise("IterationOutOfRange")
        ELSE IF IsFirst(i)
        THEN (IF first = NotFound THEN Raise("NotFound")
              ELSE Ok(<<nmin, first>>))
        ELSE IF ~PyIdxOK(indices, i - 1) \/ ~PyIdxOK(indices, i)
        THEN Raise("ListIndex")
        ELSE Ok(MarkerWindow(indices, i))

\* the window an extractor searches: the whole report for a single point
\* run, the iteration's window for a geometry run
Window(iteration) ==
  IF task = "single" THEN Ok(<<0, Nlines>>)
  ELSE geomrange(iteration, 0, Nlines)

-----------------------------------------------------------------------------
(* readcas: field extractors *)

\* tokens a .. b-1 of each of n consecutive lines starting at line l0, read
\* row by row: a row past the end of the report is an IndexError, a row with
\* fewer than b tokens cannot fill its array row (ValueError)
ReadRows(l0, n, a, b) ==
  LET missing(r) == l0 + r >= Nlines
      short(r) == ~missing(r) /\ NTok(LineAt(caslines, l0 + r)) < b
      bad == {r \in 0 .. (n - 1) : missing(r) \/ short(r)}
      r0 == CHOOSE r \in bad : \A q \in bad : r <= q
  IN  IF bad = {}
      THEN Ok([r \in 1 .. n |->
                 [c \in 1 .. (b - a) |->
                    Tok(LineAt(caslines, l0 + r - 1), a + c - 1)]])
      ELSE IF missing(r0) THEN Raise("ListIndex")
      ELSE Raise("BadValue")

\* get_posns
get_posns(iteration) ==
  LET w == Window(iteration)
      lposn == strindex(caslines, {"Element "}, w.val[1], w.val[2])
  IN  IF w.err # "none" THEN w
      ELSE IF lposn = NotFound THEN Raise("NotFound")
      ELSE ReadRows(lposn + 3, Nions, 3, 6)

\* get_cell_constrs (results log): tokens 3..8 of 'Cell constraints are:' as
\* Some(list), or None when the line is absent
get_cell_constrs ==
  LET l == strindex(caslines, {"Cell constraints are:"}, 0, Nlines)
      t == LineAt(caslines, l).toks
  IN  IF l = NotFound THEN None
      ELSE Some(SubSeq(t, 4, Min(9, Len(t))))

\* the three rows after the first 'Real Lattice(A)' of a window
ReadCellIn(w) ==
  LET lcell == strindex(caslines, {"Real Lattice(A)"}, w.val[1], w.val[2])
  IN  IF w.err # "none" THEN w
      ELSE IF lcell = NotFound THEN Raise("NotFound")
      ELSE ReadRows(lcell + 1, 3, 0, 3)

\* get_cell without the frozen-cell rule
get_cell_nofreeze(iteration) == ReadCellIn(Window(iteration))

\* get_cell: a geometry run whose six cell constraints are 0 prints its
\* cell once, so iteration 0 is read whatever was asked for
get_cell(iteration) ==
  ReadCellIn(Window(IF task = "geometry" /\
                       get_cell_constrs = Some(<<0, 0, 0, 0, 0, 0>>)
                    THEN Some(0) ELSE iteration))

\* token 6 of the first 'with enthalpy=' line of a window
ReadEnthalpyIn(w) ==
  LET l == strindex(caslines, {"with enthalpy="}, w.val[1], w.val[2])
  IN  IF w.err # "none" THEN w
      ELSE IF l = NotFound THEN Raise("NotFound")
      ELSE IF NTok(LineAt(caslines, l)) < 7 THEN Raise("ListIndex")
      ELSE Ok(Tok(LineAt(caslines, l), 6))

\* get_enthalpy with the task tested before the iteration count
get_enthalpy_taskfirst(iteration) ==
  IF task = "single" THEN Raise("NotApplicable")
  ELSE IF Niterations = 0 THEN Raise("NoSCF")
  ELSE ReadEnthalpyIn(geomrange(iteration, 0, Nlines))

\* get_enthalpy
get_enthalpy(iteration) ==
  IF Niterations = 0 THEN Raise("NoSCF")
  ELSE IF task = "single" THEN Raise("NotApplicable")
  ELSE ReadEnthalpyIn(geomrange(iteration, 0, Nlines))

\* get_energy: 'Final energy, E' (token 4), else 'Final energy =' (token 3)
get_energy(iteration) ==
  IF Niterations = 0 THEN Raise("NoSCF")
  ELSE
    LET w == Window(iteration)
        l1 == strindex(caslines, {"Final energy, E"}, w.val[1], w.val[2])
        l2 == strindex(caslines, {"Final energy ="}, w.val[1], w.val[2])
    IN  IF w.err # "none" THEN w
        ELSE IF l1 # NotFound
        THEN (IF NTok(LineAt(caslines, l1)) < 5 THEN Raise("ListIndex")
              ELSE Ok(Tok(LineAt(caslines, l1), 4)))
        ELSE IF l2 = NotFound THEN Raise("NotFound")
        ELSE IF NTok(LineAt(caslines, l2)) < 4 THEN Raise("ListIndex")
        ELSE Ok(Tok(LineAt(caslines, l2), 3))

\* get_forces: Nions rows starting 6 lines after the forces header
get_forces(iteration) ==
  IF Niterations = 0 THEN Raise("NoSCF")
  ELSE
    LET w == Window(iteration)
        l == strindex(caslines, {"* Forces *", "* Symmetrised Forces *"},
                      w.val[1], w.val[2])
    IN  IF w.err # "none" THEN w
        ELSE IF l = NotFound THEN Raise("NotFound")
        ELSE ReadRows(l + 6, Nions, 3, 6)

\* get_stresses: 3 rows starting 6 lines after the stress header
get_stresses(iteration) ==
  IF Niterations = 0 THEN Raise("NoSCF")
  ELSE
    LET w == Window(iteration)
        l == strindex(caslines,
                      {"* Stress Tensor *", "* Symmetrised Stress Tensor *"},
                      w.val[1], w.val[2])
    IN  IF w.err # "none" THEN w
        ELSE IF l = NotFound THEN Raise("NotFound")
        ELSE ReadRows(l + 6, 3, 2, 5)

-----------------------------------------------------------------------------
(* k-points (both readers) *)

\* an offset is a fraction <<numerator, denominator>>
Frac(n, d) == <<n, d>>
FracEq(a, b) == a[1] * b[2] = b[1] * a[2]

\* the last three tokens of a line: line.split()[-3:]
Last3(line) ==
  SubSeq(line.toks, IF NTok(line) > 3 THEN NTok(line) - 2 ELSE 1, NTok(line))

\* a quarter-step offset for an odd count
KOffset_quarter(k) == IF k % 2 = 0 THEN Frac(0, 1) ELSE Frac(1, 4 * k)

\* the offset of one axis: 0.0 for an even count, 1.0/(2*k) for an odd one
KOffset(k) == IF k % 2 = 0 THEN Frac(0, 1) ELSE Frac(1, 2 * k)

\* the grid of the first line that carries one of the markers, [5, 5, 1]
\* when there is none, and the offset of every axis
KPoints(lines, markers) ==
  LET l == strindex(lines, markers, 0, Len(lines))
      kgrid == IF l = NotFound THEN <<5, 5, 1>> ELSE Last3(LineAt(lines, l))
  IN  Ok(<<kgrid, [j \in 1 .. Len(kgrid) |-> KOffset(kgrid[j])]>>)

\* readcell.get_kpoints
cell_get_kpoints == KPoints(celllines, {"kpoints_mp_grid", "KPOINTS_MP_GRID"})

\* readcas.get_kpoints
get_kpoints == KPoints(caslines, {"MP grid size for SCF calculation is"})

-----------------------------------------------------------------------------
(* readcell: cell constraints *)

\* readcell.get_cell_constrs: the tokens of the two lines after the block
\* header, [1, 2, 3, 4, 5, 6] when the block is absent
cell_get_cell_constrs ==
  LET l == strindex(celllines,
                    {"%block cell_constraints", "%BLOCK cell_constraints",
                     "%BLOCK CELL_CONSTRAINTS"}, 0, Len(celllines))
  IN  IF l = NotFound THEN Ok(Some(<<1, 2, 3, 4, 5, 6>>))
      ELSE IF l + 2 >= Len(celllines) THEN Raise("ListIndex")
      ELSE Ok(Some(LineAt(celllines, l + 1).toks \o LineAt(celllines, l + 2).toks))

-----------------------------------------------------------------------------
(* Position keys *)

\* a float is its sign bit and its magnitude in units of 1e-7, so that the
\* negative zero, [neg |-> TRUE, mag |-> 0], is a value of its own
PosZero == [neg |-> FALSE, mag |-> 0]

\* float(p) of a printed number p; the numbers of a report are integers in
\* units of 1e-7, none of them a negative zero
float(p) == [neg |-> p < 0, mag |-> Abs(p)]

\* a row of printed numbers as a row of the float array
floats(row) == [j \in 1 .. Len(row) |-> float(row[j])]

\* pzero: x == 0.0 holds of both zeros, and both become the positive zero;
\* any other value is unchanged
pzero(x) == IF x.mag = 0 THEN PosZero ELSE x

\* '{0:.6f}'.format(x): the sign of x and its magnitude rounded (half to
\* even) to 6 decimals
Format6(x) ==
  LET q == x.mag \div 10
      r == x.mag % 10
      up == r > 5 \/ (r = 5 /\ q % 2 = 1)
  IN  [neg |-> x.neg, digits |-> IF up THEN q + 1 ELSE q]

\* posstring: the rendered components, in order
posstring(posn) == [j \in 1 .. Len(posn) |-> Format6(pzero(posn[j]))]

-----------------------------------------------------------------------------
(* readcas: the mixed-site resolver *)

\* flttol = 1e-4 in units of 1e-7
flttol == 1000

EmptyDict == <<>>
Put(d, k, v) == (k :> v) @@ d

\* np.linalg.norm(a - b) < flttol, compared on the squares; a component
\* that differs by flttol or more already decides it
Within(a, b) ==
  /\ \A c \in 1 .. 3 : Abs(a[c] - b[c]) < flttol
  /\ (a[1] - b[1]) * (a[1] - b[1]) + (a[2] - b[2]) * (a[2] - b[2])
       + (a[3] - b[3]) * (a[3] - b[3]) < flttol * flttol

\* the default map: every atom alone on its site, later atoms overwriting
\* earlier ones with the same key
RECURSIVE DefaultMixkey(_, _, _)
DefaultMixkey(es, posns, n) ==
  IF n = 0 THEN EmptyDict
  ELSE Put(DefaultMixkey(es, posns, n - 1), posstring(floats(posns[n])),
           <<es[n], Put(EmptyDict, es[n], 10)>>)

\* a matching loop that stops at its first match
MatchIndex_first(posns, posn, elem) ==
  LET M == {i \in 1 .. Nions : elems[i] = elem /\ Within(posn, posns[i])}
  IN  IF M = {} THEN None
      ELSE Some(CHOOSE i \in M : \A j \in M : i <= j)

\* the atom the matching loop leaves in matchindex: it runs over every
\* atom without stopping, so the last atom that matches
MatchIndex(posns, posn, elem) ==
  LET M == {i \in 1 .. Nions : elems[i] = elem /\ Within(posn, posns[i])}
  IN  IF M = {} THEN None
      ELSE Some(CHOOSE i \in M : \A j \in M : j <= i)

\* an open record written into the map
Flush(st) ==
  IF IsNone(st.posn) THEN st.mixkey
  ELSE Put(st.mixkey, st.poskey, <<elems[The(st.matchindex)], st.wts>>)

\* a site row that no atom matches with the handler catching KeyError too
Unmatched_swallowed(st) == Ok(st.mixkey)

\* a site row that no atom matches: the KeyError raised is none of the
\* exceptions the handler catches, so it ends the query
Unmatched(st) == Raise("UnmatchedSite")

\* the scan of the mixture block from line st.l on, with the handler around
\* it: an IndexError ends the query with the map as it stands
RECURSIVE MixScan(_, _)
MixScan(posns, st) ==
  IF st.l >= Nlines \/ NTok(LineAt(caslines, st.l)) = 0
  THEN Ok(st.mixkey)
  ELSE
    LET mixline == LineAt(caslines, st.l)
    IN  IF Tok(mixline, 0) # "x" THEN Ok(Flush(st))
        ELSE IF NTok(mixline) = 8
        THEN
          LET posn == <<Tok(mixline, 2), Tok(mixline, 3), Tok(mixline, 4)>>
              elem == Tok(mixline, 5)
              m == MatchIndex(posns, posn, elem)
          IN  IF IsNone(m) THEN Unmatched(st)
              ELSE MixScan(posns,
                     [l |-> st.l + 1,
                      mixkey |-> Flush(st),
                      wts |-> Put(IF IsNone(st.posn) THEN st.wts ELSE EmptyDict,
                                  elem, Tok(mixline, 6)),
                      matchindex |-> m,
                      posn |-> Some(posn),
                      poskey |-> posstring(floats(posns[The(m)]))])
        ELSE IF NTok(mixline) < 3 THEN Ok(st.mixkey)
        ELSE MixScan(posns,
               [st EXCEPT !.l = st.l + 1,
                          !.wts = Put(st.wts, Tok(mixline, 1), Tok(mixline, 2))])

\* get_mixkey
get_mixkey(iteration) ==
  LET p == get_posns(iteration)
      w == Window(iteration)
      lmix == strindex(caslines, {"Mixture"}, w.val[1], w.val[2])
      default == DefaultMixkey(elems, p.val, Nions)
  IN  IF p.err # "none" THEN p
      ELSE IF w.err # "none" THEN w
      ELSE IF Len(elems) < Nions THEN Raise("ListIndex")
      ELSE IF lmix = NotFound THEN Ok(default)
      ELSE MixScan(p.val,
             [l |-> lmix + 3, mixkey |-> default, wts |-> EmptyDict,
              matchindex |-> None, posn |-> None, poskey |-> None])

-----------------------------------------------------------------------------
(* readcell: the mixed sites of the deck *)

\* readcell.Nions = len(casatoms)
cell_Nions == Len(casatoms)

\* the position block, under any of its six spellings
PositionsMarkers ==
  {"%block positions_frac", "%BLOCK positions_frac", "%BLOCK POSITIONS_FRAC",
   "%block positions_abs", "%BLOCK positions_abs", "%BLOCK POSITIONS_ABS"}

\* 'MIXTURE' in string or 'mixture' in string, for a token of a deck line
MixTokens == {"MIXTURE:(1", "mixture:(1"}
IsMixTok(t) == t \in MixTokens

\* the weights a deck prints, the closing bracket attached: k tenths is
\* WtTexts[k]
WtTexts == <<"0.1)", "0.2)", "0.3)", "0.4)">>

\* float(lnsplt[imix+1].replace(')', '')), in tenths
ParseWt(t) == CHOOSE k \in 1 .. Len(WtTexts) : WtTexts[k] = t

\* imix after the loop over the tokens: the last token that holds the word
Imix(line) ==
  LET J == {j \in 0 .. (NTok(line) - 1) : IsMixTok(Tok(line, j))}
  IN  CHOOSE j \in J : \A k \in J : k <= j

\* the element symbols of the model in sorted() order
Alphabetical == <<"Fe", "Ni">>

\* sorted(list(set(wts.keys())))[0]
FirstSorted(keys) ==
  Alphabetical[CHOOSE k \in 1 .. Len(Alphabetical) :
                 /\ Alphabetical[k] \in keys
                 /\ \A j \in 1 .. (k - 1) : Alphabetical[j] \notin keys]

\* the default map of the deck reader over its first n atoms
RECURSIVE cell_DefaultMixkey(_)
cell_DefaultMixkey(n) ==
  IF n = 0 THEN EmptyDict
  ELSE Put(cell_DefaultMixkey(n - 1), posstring(casatoms[n].posn),
           <<casatoms[n].elem, Put(EmptyDict, casatoms[n].elem, 10)>>)

\* the second loop of readcell.get_mixkey from atom i (0-based) on: a line
\* of more than 4 tokens that holds the word adds the atom's element and
\* weight to the entry of the atom's key, and the entry's element becomes
\* the first of its elements in sorted order
RECURSIVE CellMixScan(_, _, _)
CellMixScan(lposns, mixkey, i) ==
  IF i >= cell_Nions THEN Ok(mixkey)
  ELSE IF lposns + 1 + i >= Len(celllines) THEN Raise("ListIndex")
  ELSE
    LET line == LineAt(celllines, lposns + 1 + i)
    IN  IF ~(NTok(line) > 4 /\ (Has(line, "MIXTURE") \/ Has(line, "mixture")))
        THEN CellMixScan(lposns, mixkey, i + 1)
        ELSE IF Imix(line) + 1 >= NTok(line) THEN Raise("ListIndex")
        ELSE
          LET elem == casatoms[i + 1].elem
              wt == ParseWt(Tok(line, Imix(line) + 1))
              poskey == posstring(casatoms[i + 1].posn)
              wts == Put(mixkey[poskey][2], elem, wt)
          IN  CellMixScan(lposns,
                          Put(mixkey, poskey, <<FirstSorted(DOMAIN wts), wts>>),
                          i + 1)

\* readcell.get_mixkey: the iteration is ignored
cell_get_mixkey ==
  LET lposns == strindex(celllines, PositionsMarkers, 0, Len(celllines))
  IN  IF lposns = NotFound THEN Raise("NotFound")
      ELSE CellMixScan(lposns, cell_DefaultMixkey(cell_Nions), 0)

-----------------------------------------------------------------------------
(* Results logs the model reads *)

Line(marks, toks) == [marks |-> marks, toks |-> toks]
Filler == Line({}, <<"x">>)
Blank == Line({}, <<>>)

NionsLine(n) ==
  Line({"Total number of ions in cell"},
       <<"Total", "number", "of", "ions", "in", "cell", "=", n>>)
TaskLine(t) ==
  Line({"type of calculation                            :"},
       <<"type", "of", "calculation", ":", t, "run">>)
ConstrLine(c) ==
  Line({"Cell constraints are:"}, <<"Cell", "constraints", "are:">> \o c)
TotalTimeLine == Line({"Total time          ="}, <<"Total", "time", "=", 1, "s">>)

\* 'Real Lattice(A)' and the three rows of cell number k
CellBlock(k) ==
  <<Line({"Real Lattice(A)"}, <<"Real", "Lattice(A)">>)>> \o
  [r \in 1 .. 3 |-> Line({}, <<k, r, 0, 0, 0, 0>>)]

\* 'Element ' header, two ruler lines and one row per atom
PosRow(e, n, p) == Line({}, <<"x", e, n, p[1], p[2], p[3], "x">>)
PosBlock(es, ps) ==
  <<Line({"Element "}, <<"x", "Element", "Atom", "x">>), Filler, Filler>> \o
  [i \in 1 .. Len(es) |-> PosRow(es[i], i, ps[i])]

FinishedLine(k) ==
  Line({"finished iteration", "with enthalpy="},
       <<"LBFGS:", "finished", "iteration", k, "with", "enthalpy=", k, "eV">>)
FinishedOnly(k) ==
  Line({"finished iteration"}, <<"LBFGS:", "finished", "iteration", k>>)
EnthalpyOnly(k) ==
  Line({"with enthalpy="},
       <<"LBFGS:", "improving", "iteration", k, "with", "enthalpy=", k, "eV">>)

\* energy, forces and stress of SCF cycle k
ScfBlock(k, n) ==
  <<Line({"Final energy, E"}, <<"Final", "energy,", "E", "=", k, "eV">>)>> \o
  <<Line({"* Forces *"}, <<"*", "Forces", "*">>)>> \o
  [j \in 1 .. 5 |-> Filler] \o
  [i \in 1 .. n |-> Line({}, <<"*", "Fe", i, k, 0, 0, "*">>)] \o
  <<Line({"* Stress Tensor *"}, <<"*", "Stress", "Tensor", "*">>)>> \o
  [j \in 1 .. 5 |-> Filler] \o
  [r \in 1 .. 3 |-> Line({}, <<"*", "x", k, r, 0, "*">>)]

BlockKinds == {"fe", "f", "e", "struct", "scf"}

\* the lines of body block k of the given kind
BlockLines(kind, k) ==
  CASE kind = "fe"     -> <<FinishedLine(k)>>
    [] kind = "f"      -> <<FinishedOnly(k)>>
    [] kind = "e"      -> <<EnthalpyOnly(k)>>
    [] kind = "struct" -> CellBlock(k) \o PosBlock(<<"Fe">>, <<<<k, 0, 0>>>>)
    [] kind = "scf"    -> ScfBlock(k, 1)

RECURSIVE Flatten(_, _)
Flatten(body, k) ==
  IF body = <<>> THEN <<>>
  ELSE BlockLines(Head(body), k) \o Flatten(Tail(body), k + 1)

Constraints ==
  {None, Some(<<0, 0, 0, 0, 0, 0>>), Some(<<1, 1, 1, 0, 0, 0>>),
   Some(<<1, 2, 3, 4, 5, 6>>)}

KGridLine(g) ==
  Line({"MP grid size for SCF calculation is"},
       <<"MP", "grid", "size", "for", "SCF", "calculation", "is">> \o g)

Report(t, kp, constr, body, done) ==
  <<NionsLine(1), TaskLine(t)>> \o
  (IF IsNone(kp) THEN <<>> ELSE <<KGridLine(The(kp))>>) \o
  (IF IsNone(constr) THEN <<>> ELSE <<ConstrLine(The(constr))>>) \o
  CellBlock(0) \o PosBlock(<<"Fe">>, <<<<0, 0, 0>>>>) \o
  Flatten(body, 1) \o
  (IF done THEN <<TotalTimeLine>> ELSE <<>>)

Bodies(max) == UNION {[1 .. n -> BlockKinds] : n \in 0 .. max}

Reports ==
  {Report("geometry", None, c, b, d) :
     c \in Constraints, b \in Bodies(MaxBlocks), d \in BOOLEAN}
  \cup
  {Report("single", None, c, b, d) :
     c \in Constraints, b \in Bodies(MaxSingleBlocks), d \in BOOLEAN}

\* the iteration arguments tried: None and every index up to Beyond past
\* the range the reader accepts
Iterations ==
  {None} \cup
  {Some(i) : i \in (-(Niterations + Beyond)) .. (Niterations + Beyond)}

-----------------------------------------------------------------------------
(* The results-log reader answering queries *)

Init ==
  /\ \E r \in Reports : Constructs(r) /\ Constructed(r)
  /\ celllines = <<>>
  /\ casatoms = <<>>
  /\ op = "idle"
  /\ arg = None
  /\ result = Ok(<<>>)

Reader ==
  <<caslines, Nions, task, complete, Niterations, elems, celllines, casatoms>>

\* a query is made when the previous one has returned
Query(name, it, r) ==
  /\ op = "idle"
  /\ op' = name
  /\ arg' = it
  /\ result' = r
  /\ UNCHANGED Reader

Geomrange == \E it \in Iterations : Query("geomrange", it, geomrange(it, 0, Nlines))
GetPosns == \E it \in Iterations : Query("get_posns", it, get_posns(it))
GetMixkey == \E it \in Iterations : Query("get_mixkey", it, get_mixkey(it))
GetCell == \E it \in Iterations : Query("get_cell", it, get_cell(it))
GetEnthalpy == \E it \in Iterations : Query("get_enthalpy", it, get_enthalpy(it))
GetEnergy == \E it \in Iterations : Query("get_energy", it, get_energy(it))
GetForces == \E it \in Iterations : Query("get_forces", it, get_forces(it))
GetStresses == \E it \in Iterations : Query("get_stresses", it, get_stresses(it))
GetCellConstrs == Query("get_cell_constrs", None, Ok(get_cell_constrs))

\* the caller takes the result
Return ==
  /\ op # "idle"
  /\ op' = "idle"
  /\ arg' = None
  /\ result' = Ok(<<>>)
  /\ UNCHANGED Reader

Next ==
  \/ Geomrange
  \/ GetPosns
  \/ GetMixkey
  \/ GetCell
  \/ GetEnthalpy
  \/ GetEnergy
  \/ GetForces
  \/ GetStresses
  \/ GetCellConstrs
  \/ Return

Spec == Init /\ [][Next]_vars

-----------------------------------------------------------------------------
(* An input deck and the log of the run it started, both read *)

Grids == [1 .. 3 -> 1 .. MaxGrid]
KSettings == {None} \cup {Some(g) : g \in Grids}

\* the deck: an optional k-point line and an optional constraints block,
\* keywords in lower or upper case
Deck(kp, constr, upper) ==
  <<Line({}, <<"%block", "lattice_cart">>)>> \o
  (IF IsNone(kp) THEN <<>>
   ELSE <<Line({IF upper THEN "KPOINTS_MP_GRID" ELSE "kpoints_mp_grid"},
               <<"kpoints_mp_grid">> \o The(kp))>>) \o
  (IF IsNone(constr) THEN <<>>
   ELSE <<Line({IF upper THEN "%BLOCK CELL_CONSTRAINTS"
                ELSE "%block cell_constraints"},
               <<"%block", "cell_constraints">>),
          Line({}, SubSeq(The(constr), 1, 3)),
          Line({}, SubSeq(The(constr), 4, 6)),
          Line({"%endblock cell_constraints"},
               <<"%endblock", "cell_constraints">>)>>)

InitDeck ==
  /\ \E kp \in KSettings, cd \in Constraints, cl \in Constraints,
        upper \in BOOLEAN, t \in recognised_tasks :
       /\ celllines = Deck(kp, cd, upper)
       /\ Constructs(Report(t, kp, cl, <<"fe">>, TRUE))
       /\ Constructed(Report(t, kp, cl, <<"fe">>, TRUE))
  /\ casatoms = <<>>
  /\ op = "idle"
  /\ arg = None
  /\ result = Ok(<<>>)

CellGetKpoints == Query("readcell.get_kpoints", None, cell_get_kpoints)
GetKpoints == Query("get_kpoints", None, get_kpoints)
CellGetCellConstrs == Query("readcell.get_cell_constrs", None, cell_get_cell_constrs)

NextDeck ==
  \/ CellGetKpoints
  \/ GetKpoints
  \/ CellGetCellConstrs
  \/ GetCellConstrs
  \/ Return

SpecDeck == InitDeck /\ [][NextDeck]_vars

-----------------------------------------------------------------------------
(* Results logs with a mixture block *)

Elements == {"Fe", "Ni"}

\* fractional positions in units of 1e-7.  Atoms sit at the origin, at a
\* point 0.00004 away from it (inside the tolerance, another key) or far
\* from both; the block prints its sites at the origin
AtomPositions == {<<0, 0, 0>>, <<400, 0, 0>>, <<5000000, 0, 0>>}
RowPositions == {<<0, 0, 0>>}

\* a row of the block: a site row (8 tokens) or a continuation row (4)
SiteRow(k, p, e) == Line({}, <<"x", k, p[1], p[2], p[3], e, k, "x">>)
ContRow(k, e) == Line({}, <<"x", e, k, "x">>)
RowChoices ==
  {[site |-> TRUE, p |-> p, e |-> e] : p \in RowPositions, e \in Elements}
  \cup {[site |-> FALSE, p |-> <<>>, e |-> e] : e \in Elements}

\* the header, two ruler lines, and the rows; row k carries weight k
MixBlock(rows) ==
  <<Line({"Mixture"}, <<"Mixture", "of", "atoms">>), Filler, Filler>> \o
  [k \in 1 .. Len(rows) |->
     IF rows[k].site THEN SiteRow(k, rows[k].p, rows[k].e)
     ELSE ContRow(k, rows[k].e)]

\* what follows the last row: the closing rule of the table, a blank line,
\* or nothing at all
Endings == {"rule", "blank", "eof"}
After(ending) ==
  IF ending = "eof" THEN <<>>
  ELSE <<IF ending = "rule" THEN Line({}, <<"xxxx">>) ELSE Blank,
         TotalTimeLine>>

\* a single point log of a structure with a mixture block
MixReport(es, ps, rows, ending) ==
  <<NionsLine(Len(es)), TaskLine("single")>> \o
  CellBlock(0) \o PosBlock(es, ps) \o MixBlock(rows) \o After(ending)

InitMix ==
  /\ \E n \in 1 .. MaxAtoms, m \in 0 .. MaxRows :
       \E es \in [1 .. n -> Elements], ps \in [1 .. n -> AtomPositions],
          rows \in [1 .. m -> RowChoices], ending \in Endings :
         /\ Constructs(MixReport(es, ps, rows, ending))
         /\ Constructed(MixReport(es, ps, rows, ending))
  /\ celllines = <<>>
  /\ casatoms = <<>>
  /\ op = "idle"
  /\ arg = None
  /\ result = Ok(<<>>)

\* get_mixkey() with its default iteration, and get_mixkey(None)
GetMixkeyDefault ==
  \E it \in {Some(-1), None} : Query("get_mixkey", it, get_mixkey(it))

NextMix ==
  \/ GetMixkeyDefault
  \/ Return

SpecMix == InitMix /\ [][NextMix]_vars

-----------------------------------------------------------------------------
(* A deck and the log of its run, describing one mixed site *)

\* the elements of the site in the order they are listed, element k with
\* weight k tenths
SiteOrders ==
  {o \in UNION {[1 .. n -> Elements] : n \in 1 .. Cardinality(Elements)} :
     \A i, j \in DOMAIN o : i # j => o[i] # o[j]}

\* no further atom, or one alone on another site
Others(p) ==
  {<<>>} \cup {<<[e |-> e, p |-> q]>> : e \in Elements, q \in AtomPositions \ {p}}

\* a line of the position block: element, three coordinates and, for an atom
\* of the mixed site, MIXTURE:(1 weight)
MixedAtomLine(e, k, upper) ==
  Line({IF upper THEN "MIXTURE" ELSE "mixture"},
       <<e, "x", "x", "x", IF upper THEN "MIXTURE:(1" ELSE "mixture:(1",
         WtTexts[k]>>)
PlainAtomLine(e) == Line({}, <<e, "x", "x", "x">>)

SiteDeck(ord, other, upper) ==
  <<Line({IF upper THEN "%BLOCK POSITIONS_FRAC" ELSE "%block positions_frac"},
         <<"%block", "positions_frac">>)>> \o
  [k \in 1 .. Len(ord) |-> MixedAtomLine(ord[k], k, upper)] \o
  [k \in 1 .. Len(other) |-> PlainAtomLine(other[k].e)] \o
  <<Line({"%endblock positions_frac"}, <<"%endblock", "positions_frac">>)>>

\* the log of the same structure: the atoms of the site first, the block
\* listing the site's elements in the same order
SiteReport(ord, p, other, ending) ==
  MixReport(ord \o [k \in 1 .. Len(other) |-> other[k].e],
            [k \in 1 .. Len(ord) |-> p] \o
              [k \in 1 .. Len(other) |-> other[k].p],
            [k \in 1 .. Len(ord) |->
               IF k = 1 THEN [site |-> TRUE, p |-> p, e |-> ord[k]]
               ELSE [site |-> FALSE, p |-> <<>>, e |-> ord[k]]],
            ending)

\* what the deck parser hands to readcell: element and position per atom
Atoms(ord, p, other) ==
  [k \in 1 .. Len(ord) |-> [elem |-> ord[k], posn |-> floats(p)]] \o
  [k \in 1 .. Len(other) |-> [elem |-> other[k].e, posn |-> floats(other[k].p)]]

InitSite ==
  /\ \E ord \in SiteOrders, p \in AtomPositions, upper \in BOOLEAN,
        ending \in Endings :
       \E other \in Others(p) :
         /\ Constructs(SiteReport(ord, p, other, ending))
         /\ Constructed(SiteReport(ord, p, other, ending))
         /\ celllines = SiteDeck(ord, other, upper)
         /\ casatoms = Atoms(ord, p, other)
  /\ op = "idle"
  /\ arg = None
  /\ result = Ok(<<>>)

CellGetMixkey == Query("readcell.get_mixkey", None, cell_get_mixkey)

NextSite ==
  \/ CellGetMixkey
  \/ GetMixkeyDefault
  \/ Return

SpecSite == InitSite /\ [][NextSite]_vars

-----------------------------------------------------------------------------
(* Position keys rendered on their own *)

\* the components tried: both signs of every magnitude up to MaxMag, the
\* two zeros included
Components == {[neg |-> n, mag |-> m] : n \in BOOLEAN, m \in 0 .. MaxMag}
Vectors == [1 .. 3 -> Components]

\* no report is read
InitPos ==
  /\ caslines = <<>>
  /\ Nions = 0
  /\ task = "single"
  /\ complete = FALSE
  /\ Niterations = 0
  /\ elems = <<>>
  /\ celllines = <<>>
  /\ casatoms = <<>>
  /\ op = "idle"
  /\ arg = None
  /\ result = Ok(<<>>)

Posstring == \E posn \in Vectors : Query("posstring", posn, Ok(posstring(posn)))

NextPos ==
  \/ Posstring
  \/ Return

SpecPos == InitPos /\ [][NextPos]_vars

-----------------------------------------------------------------------------
(* Properties of the results-log reader *)

\* the finish-marker lines of the log, ascending (F[1] is the first)
F == strindices(caslines, {"finished iteration"}, 0, Nlines)

\* the lines that print an enthalpy
EnthalpyLines == {l \in 0 .. (Nlines - 1) : Has(LineAt(caslines, l), "with enthalpy=")}

IterationExtractors ==
  {"get_posns", "get_cell", "get_mixkey", "get_energy", "get_enthalpy",
   "get_forces", "get_stresses"}
NeedScf == {"get_energy", "get_enthalpy", "get_forces", "get_stresses"}

\* an integer iteration the spec calls out of range was asked for
AskedOutOfRange ==
  /\ ~IsNone(arg)
  /\ (The(arg) > Niterations \/ The(arg) < -Niterations \/ The(arg) = Niterations)

\* an integer iteration in i .. j was asked for
AskedIn(i, j) == ~IsNone(arg) /\ i <= The(arg) /\ The(arg) <= j

AllConstraintsZero ==
  \E l \in 0 .. (Nlines - 1) :
    /\ Has(LineAt(caslines, l), "Cell constraints are:")
    /\ LineAt(caslines, l).toks = ConstrLine(<<0, 0, 0, 0, 0, 0>>).toks

\* C1 as stated: every iteration-taking extractor fails with the
\* iteration-out-of-range error for every out of range integer iteration,
\* whatever the task and the cell constraints.
C1_EveryExtractorChecksRange ==
  (op \in IterationExtractors /\ AskedOutOfRange)
    => result.err = "IterationOutOfRange"

\* C1 amended: on a geometry log an out of range iteration fails with the
\* out-of-range IndexError in get_posns and get_mixkey, in get_cell unless
\* all six constraints are 0 (then iteration 0 is read, which is out of range
\* only when Niterations = 0), and in the four extractors that need a
\* finished SCF cycle when Niterations >= 1 (with Niterations = 0 they fail
\* with the 'No SCF calculations completed' IndexError); on a single point
\* log no extractor checks the iteration.
C1_GeometryChecksRange ==
  (op \in IterationExtractors /\ AskedOutOfRange) =>
    IF task = "single" THEN result.err # "IterationOutOfRange"
    ELSE IF op \in NeedScf /\ Niterations = 0
    THEN result.err = "NoSCF" /\ ExcType(result.err) = "IndexError"
    ELSE IF op = "get_cell" /\ AllConstraintsZero
    THEN (result.err = "IterationOutOfRange") <=> (Niterations = 0)
    ELSE result.err = "IterationOutOfRange" /\ ExcType(result.err) = "IndexError"

C1_Witness ==
  /\ task = "geometry" /\ Niterations = 2
  /\ op = "get_forces" /\ arg = Some(2)
  /\ result.err = "IterationOutOfRange"

\* C4: with Niterations = N >= 2 and N finish markers, geomrange(0) is
\* (0, F[0]), geomrange(i) is (F[i-1], F[i]) for 1 <= i <= N-1, and the
\* window of i ends where the window of i+1 begins.
C4_WindowsTile ==
  (/\ op = "geomrange" /\ task = "geometry"
   /\ Niterations >= 2 /\ Len(F) = Niterations
   /\ AskedIn(0, Niterations - 1)) =>
    LET i == The(arg)
    IN  /\ result = Ok(<<IF i = 0 THEN 0 ELSE F[i], F[i + 1]>>)
        /\ i < Niterations - 1 =>
             /\ geomrange(Some(i + 1), 0, Nlines).err = "none"
             /\ geomrange(Some(i + 1), 0, Nlines).val[1] = result.val[2]

C4_Witness ==
  /\ op = "geomrange" /\ task = "geometry"
  /\ Niterations = 3 /\ Len(F) = 3
  /\ arg = Some(1) /\ result = Ok(<<F[1], F[2]>>)
  /\ geomrange(Some(2), 0, Nlines) = Ok(<<F[2], F[3]>>)

\* C5 as stated: for every geometry log Niterations is the number of
\* 'finished iteration' lines.
C5_NiterationsIsMarkerCount ==
  task = "geometry" => Niterations = Len(F)

\* C5 amended: for every geometry log Niterations is the number of lines
\* that contain 'with enthalpy='; it is the number of finish markers, and
\* every index the range check accepts is served from F, when the same lines
\* carry both texts.
C5_NiterationsIsEnthalpyCount ==
  task = "geometry" =>
    /\ Niterations = Cardinality(EnthalpyLines)
    /\ (\A l \in 0 .. (Nlines - 1) :
          Has(LineAt(caslines, l), "finished iteration")
            <=> Has(LineAt(caslines, l), "with enthalpy="))
       => /\ Niterations = Len(F)
          /\ (op = "geomrange" /\ AskedIn(-Niterations, Niterations - 1))
               => /\ result.err = "none"
                  /\ result.val[2] \in {F[k] : k \in 1 .. Len(F)}

C5_Witness ==
  /\ task = "geometry" /\ Niterations = 2 /\ Len(F) = 2
  /\ Cardinality(EnthalpyLines) = 2
  /\ op = "geomrange" /\ arg = Some(1) /\ result = Ok(<<F[1], F[2]>>)

\* C6 as stated: on a geometry log with Niterations = N >= 1, geomrange(i)
\* is geomrange(i + N) for every -N <= i <= -1.
C6_NegativeAddressesFromEnd ==
  (/\ op = "geomrange" /\ task = "geometry" /\ Niterations >= 1
   /\ AskedIn(-Niterations, -1)) =>
    /\ result.err = "none"
    /\ result = geomrange(Some(The(arg) + Niterations), 0, Nlines)

\* C6 amended: the same, on a geometry log that has exactly N finish
\* markers; -N gives (0, F[0]) and -1 gives (F[N-2], F[N-1]).
C6_NegativeAddressesFromEndOfF ==
  (/\ op = "geomrange" /\ task = "geometry" /\ Niterations >= 1
   /\ Len(F) = Niterations
   /\ AskedIn(-Niterations, -1)) =>
    LET k == The(arg) + Niterations
    IN  /\ result = Ok(<<IF k = 0 THEN 0 ELSE F[k], F[k + 1]>>)
        /\ result = geomrange(Some(k), 0, Nlines)

C6_Witness ==
  /\ op = "geomrange" /\ task = "geometry"
  /\ Niterations = 3 /\ Len(F) = 3
  /\ arg = Some(-1) /\ result = Ok(<<F[2], F[3]>>)

\* C7 as stated: get_enthalpy on a single point log always fails with the
\* not-applicable error, whether Niterations is 0 or 1.
C7_SingleEnthalpyNotApplicable ==
  (op = "get_enthalpy" /\ task = "single") => result.err = "NotApplicable"

\* C7 amended: get_enthalpy on a single point log always fails: with the
\* not-applicable error when the run completed (Niterations = 1) and with
\* the 'No SCF calculations completed' IndexError when it did not
\* (Niterations = 0), for every iteration argument.
C7_SingleEnthalpyFails ==
  (op = "get_enthalpy" /\ task = "single") =>
    /\ Niterations \in {0, 1}
    /\ Niterations = 1 =>
         result.err = "NotApplicable" /\ ExcType(result.err) = "NotImplementedError"
    /\ Niterations = 0 =>
         result.err = "NoSCF" /\ ExcType(result.err) = "IndexError"

C7_Witness ==
  /\ op = "get_enthalpy" /\ task = "single" /\ ~complete
  /\ arg = Some(0) /\ result.err = "NoSCF"

\* C9: on a geometry log whose six cell constraints are all 0, get_cell
\* reads the cell of the first iteration's window for every requested
\* iteration; with other constraints, or none printed, it reads the
\* requested iteration's own window.
C9_FrozenCellReadsFirstWindow ==
  (op = "get_cell" /\ task = "geometry") =>
    IF AllConstraintsZero
    THEN /\ result = ReadCellIn(geomrange(Some(0), 0, Nlines))
         /\ result = get_cell(Some(0))
    ELSE result = ReadCellIn(geomrange(arg, 0, Nlines))

C9_Witness ==
  /\ op = "get_cell" /\ task = "geometry" /\ AllConstraintsZero
  /\ Niterations = 2 /\ arg = Some(1)
  /\ result.err = "none"
  /\ ReadCellIn(geomrange(Some(1), 0, Nlines)).err = "none"
  /\ ReadCellIn(geomrange(Some(1), 0, Nlines)) # result

\* the same lines carry 'finished iteration' and 'with enthalpy=': every
\* finish marker prints its iteration's enthalpy and nothing else prints one
MarkersCarryEnthalpy ==
  \A l \in 0 .. (Nlines - 1) :
    Has(LineAt(caslines, l), "finished iteration")
      <=> Has(LineAt(caslines, l), "with enthalpy=")

\* C13: on a geometry log whose finish markers F[k] carry the enthalpy of
\* their iteration, get_enthalpy(i) returns the value printed on line F[i],
\* for every 0 <= i < Niterations, the anchor being searched in the half-open
\* window geomrange(i).
C13_EnthalpyOfOwnIteration ==
  (/\ op = "get_enthalpy" /\ task = "geometry"
   /\ MarkersCarryEnthalpy
   /\ AskedIn(0, Niterations - 1)) =>
    result = Ok(Tok(LineAt(caslines, F[The(arg) + 1]), 6))

-----------------------------------------------------------------------------
(* Properties of the header queries of the two readers *)

\* the grid a report declares on its first k-point line, if any
DeclaredIn(lines, markers) ==
  LET S == {l \in 1 .. Len(lines) : lines[l].marks \cap markers # {}}
      l0 == CHOOSE l \in S : \A m \in S : l <= m
  IN  IF S = {} THEN None
      ELSE Some(<<lines[l0].toks[Len(lines[l0].toks) - 2],
                  lines[l0].toks[Len(lines[l0].toks) - 1],
                  lines[l0].toks[Len(lines[l0].toks)]>>)

DeclaredGrid ==
  IF op = "readcell.get_kpoints"
  THEN DeclaredIn(celllines, {"kpoints_mp_grid", "KPOINTS_MP_GRID"})
  ELSE DeclaredIn(caslines, {"MP grid size for SCF calculation is"})

KpointsAsked == op \in {"readcell.get_kpoints", "get_kpoints"}

\* C8 as stated: a report declaring the grid 4 4 1 yields
\* ([4,4,1], [0.0, 0.0, 0.25]).
C8_Grid441QuarterOffset ==
  (KpointsAsked /\ DeclaredGrid = Some(<<4, 4, 1>>)) =>
    /\ result.val[1] = <<4, 4, 1>>
    /\ FracEq(result.val[2][1], Frac(0, 1))
    /\ FracEq(result.val[2][2], Frac(0, 1))
    /\ FracEq(result.val[2][3], Frac(1, 4))

\* C8 amended: get_kpoints returns the declared grid and, per axis, offset
\* 0.0 for an even count k and 1/(2k) for an odd one, so that a report
\* declaring 4 4 1 yields ([4,4,1], [0.0, 0.0, 0.5]).
C8_HalfStepOffset ==
  (KpointsAsked /\ ~IsNone(DeclaredGrid)) =>
    LET g == The(DeclaredGrid)
    IN  /\ result.err = "none"
        /\ result.val[1] = g
        /\ \A j \in 1 .. 3 :
             IF g[j] % 2 = 0
             THEN FracEq(result.val[2][j], Frac(0, 1))
             ELSE FracEq(result.val[2][j], Frac(1, 2 * g[j]))
        /\ g = <<4, 4, 1>> => FracEq(result.val[2][3], Frac(1, 2))

C8_Witness ==
  /\ op = "get_kpoints" /\ DeclaredGrid = Some(<<4, 4, 1>>)
  /\ result = Ok(<<<<4, 4, 1>>, <<Frac(0, 1), Frac(0, 1), Frac(1, 2)>>>>)

ConstraintsAbsentFrom(lines, markers) ==
  \A l \in 1 .. Len(lines) : lines[l].marks \cap markers = {}

\* C10: when the constraints section is absent, get_cell_constrs returns
\* the default of identity constraints, a list of six ints, the same in the
\* input-deck reader and in the results-log reader.
C10_AbsentConstraintsDefault ==
  /\ (/\ op = "readcell.get_cell_constrs"
      /\ ConstraintsAbsentFrom(celllines,
           {"%block cell_constraints", "%BLOCK cell_constraints",
            "%BLOCK CELL_CONSTRAINTS"}))
       => result = Ok(Some(<<1, 2, 3, 4, 5, 6>>))
  /\ (/\ op = "get_cell_constrs"
      /\ ConstraintsAbsentFrom(caslines, {"Cell constraints are:"}))
       => result = Ok(Some(<<1, 2, 3, 4, 5, 6>>))

-----------------------------------------------------------------------------
(* Properties of the mixed-site resolver *)

\* the 'Mixture' header inside the window the last query searched
MixHeader == strindex(caslines, {"Mixture"}, Window(arg).val[1], Window(arg).val[2])

\* a get_mixkey that found a block and returned a map
MixkeyReturned ==
  /\ op = "get_mixkey"
  /\ result.err = "none"
  /\ get_posns(arg).err = "none"
  /\ MixHeader # NotFound

\* the rows of the block: the lines from 3 after the header on that start
\* with the token 'x'
IsRow(l) ==
  /\ NTok(LineAt(caslines, l)) > 0
  /\ Tok(LineAt(caslines, l), 0) = "x"
BlockRows ==
  LET first == MixHeader + 3
      stops == {l \in first .. (Nlines - 1) : ~IsRow(l)}
  IN  {l \in first .. (Nlines - 1) : \A k \in stops : l < k}
SiteRowsOf(B) == {l \in B : NTok(LineAt(caslines, l)) = 8}

\* the atoms a site row can be matched to, P being the positions read
RowPosn(l) ==
  <<Tok(LineAt(caslines, l), 2), Tok(LineAt(caslines, l), 3),
    Tok(LineAt(caslines, l), 4)>>
MatchSet(P, l) ==
  {i \in 1 .. Nions :
     /\ elems[i] = Tok(LineAt(caslines, l), 5)
     /\ Within(RowPosn(l), P[i])}

\* the rows whose (element, weight) pairs the record opened at site row l
\* holds when it is written: from l (from the top of the block for the first
\* record) to the row before the next site row
RecFirst(S, l) ==
  IF \E k \in S : k < l THEN l ELSE MixHeader + 3
RecLast(B, S, l) ==
  LET later == {k \in S : k > l}
      mine == {b \in B : b >= l /\ \A k \in later : b < k}
  IN  CHOOSE b \in mine : \A c \in mine : c <= b
RowElem(l) ==
  IF NTok(LineAt(caslines, l)) = 8 THEN Tok(LineAt(caslines, l), 5)
  ELSE Tok(LineAt(caslines, l), 1)
RowWt(l) ==
  IF NTok(LineAt(caslines, l)) = 8 THEN Tok(LineAt(caslines, l), 6)
  ELSE Tok(LineAt(caslines, l), 2)
RecWts(B, S, l) ==
  LET rows == RecFirst(S, l) .. RecLast(B, S, l)
      es == {RowElem(k) : k \in rows}
  IN  [e \in es |->
         RowWt(CHOOSE k \in rows :
                 /\ RowElem(k) = e
                 /\ \A j \in rows : RowElem(j) = e => j <= k)]

\* no later record is written under a key one of l's atoms renders to
KeepsItsKey(P, S, l) ==
  \A k \in S :
    k > l => \A i \in MatchSet(P, l), j \in MatchSet(P, k) :
               posstring(floats(P[i])) # posstring(floats(P[j]))

\* the record opened at l is written by the code when a site row follows it
\* or the block ends on a line that has a first token
Written(B, S, l) ==
  \/ \E k \in S : k > l
  \/ /\ RecLast(B, S, l) + 1 < Nlines
     /\ NTok(LineAt(caslines, RecLast(B, S, l) + 1)) > 0

\* the map holds the record of site row l under the key of atom i
HoldsRecord(P, B, S, l, i) ==
  /\ posstring(floats(P[i])) \in DOMAIN result.val
  /\ result.val[posstring(floats(P[i]))] = <<elems[i], RecWts(B, S, l)>>

FirstOf(M) == CHOOSE i \in M : \A j \in M : i <= j
LastOf(M) == CHOOSE i \in M : \A j \in M : j <= i

\* C2 as stated: when several atoms match a site row, the first of them in
\* atom-index order is the matched index and supplies the key and the
\* representative element.
C2_FirstMatchWins ==
  MixkeyReturned =>
    LET P == get_posns(arg).val
        B == BlockRows
        S == SiteRowsOf(B)
    IN  \A l \in S :
          (/\ Cardinality(MatchSet(P, l)) > 1
           /\ Written(B, S, l) /\ KeepsItsKey(P, S, l))
            => HoldsRecord(P, B, S, l, FirstOf(MatchSet(P, l)))

\* C2 amended: when several atoms match a site row, the last of them in
\* atom-index order is the matched index: the record, whenever it is
\* written, is written under that atom's key with that atom's element.
C2_LastMatchWins ==
  MixkeyReturned =>
    LET P == get_posns(arg).val
        B == BlockRows
        S == SiteRowsOf(B)
    IN  \A l \in S :
          (/\ MatchSet(P, l) # {}
           /\ Written(B, S, l) /\ KeepsItsKey(P, S, l))
            => HoldsRecord(P, B, S, l, LastOf(MatchSet(P, l)))

C2_Witness ==
  /\ MixkeyReturned
  /\ LET P == get_posns(arg).val
         B == BlockRows
         S == SiteRowsOf(B)
     IN  \E l \in S :
           /\ Cardinality(MatchSet(P, l)) > 1
           /\ Written(B, S, l) /\ KeepsItsKey(P, S, l)
           /\ posstring(floats(P[FirstOf(MatchSet(P, l))]))
                # posstring(floats(P[LastOf(MatchSet(P, l))]))
           /\ HoldsRecord(P, B, S, l, LastOf(MatchSet(P, l)))
           /\ ~HoldsRecord(P, B, S, l, FirstOf(MatchSet(P, l)))

\* C3: every record opened by a site row is in the returned map, the last
\* one included, however the block ends (a line that does not start with
\* 'x', a blank line, the end of the report).
C3_EveryRecordFlushed ==
  MixkeyReturned =>
    LET P == get_posns(arg).val
        B == BlockRows
        S == SiteRowsOf(B)
    IN  \A l \in S :
          KeepsItsKey(P, S, l)
            => HoldsRecord(P, B, S, l, LastOf(MatchSet(P, l)))

\* a get_mixkey that read its positions and found a block
MixkeyAsked ==
  /\ op = "get_mixkey"
  /\ get_posns(arg).err = "none"
  /\ MixHeader # NotFound

\* the scan gets as far as row l: every row above it can be read
Reached(B, l) == \A k \in B : k < l => NTok(LineAt(caslines, k)) >= 3

\* C11: if an 8-token row of the block has no atom of its element within
\* the tolerance of its position, get_mixkey fails with the unmatched-site
\* KeyError and returns no map, whichever row of the block it is (a row after
\* a matched record included); the handler for an absent block does not
\* swallow it.
C11_UnmatchedSiteFails ==
  MixkeyAsked =>
    LET P == get_posns(arg).val
        B == BlockRows
        S == SiteRowsOf(B)
    IN  (\E l \in S : Reached(B, l) /\ MatchSet(P, l) = {})
          => /\ result.err = "UnmatchedSite"
             /\ ExcType(result.err) = "KeyError"
             /\ result.val = <<>>

C11_Witness ==
  /\ MixkeyAsked
  /\ result.err = "UnmatchedSite"
  /\ LET P == get_posns(arg).val
         B == BlockRows
         S == SiteRowsOf(B)
     IN  \E k, l \in S :
           /\ k < l
           /\ MatchSet(P, k) # {}
           /\ MatchSet(P, l) = {}

-----------------------------------------------------------------------------
(* Properties of the position keys *)

\* the rendering '-0.000000'
MinusZeroText == [neg |-> TRUE, digits |-> 0]

\* C12: posstring renders every component with 6 decimals and never as
\* '-0.000000', whatever the component: a signed zero, or a negative value
\* whose magnitude rounds to zero at 6 decimals.
C12_NeverMinusZero ==
  op = "posstring" =>
    /\ Len(result.val) = Len(arg)
    /\ \A j \in 1 .. Len(arg) : result.val[j] # MinusZeroText

-----------------------------------------------------------------------------
(* Properties of the two resolvers together *)

\* the deck and the log describe the same atoms
SameAtoms ==
  /\ cell_Nions = Nions
  /\ get_posns(None).err = "none"
  /\ \A i \in 1 .. Nions :
       /\ casatoms[i].elem = elems[i]
       /\ casatoms[i].posn = floats(get_posns(None).val[i])

\* the key of the mixed site, whose atoms come first
SiteKey == posstring(casatoms[1].posn)

\* C14: for a deck and a log that describe the same atoms and the same
\* mixed site, readcell.get_mixkey and readcas.get_mixkey return the same
\* entry (representative element and weight map) under the site's position
\* key, whatever the order in which the site's elements are listed.
C14_SameSiteEntry ==
  (op = "readcell.get_mixkey" /\ SameAtoms) =>
    LET cas == get_mixkey(Some(-1))
    IN  /\ result.err = "none"
        /\ cas.err = "none"
        /\ SiteKey \in DOMAIN result.val
        /\ SiteKey \in DOMAIN cas.val
        /\ result.val[SiteKey] = cas.val[SiteKey]

====
